---- MODULE Spec2Model ----
(***************************************************************************)
(* A model of the site-crawling pipeline of alt-text-scan.py and of the    *)
(* batch loop of alt-text-generator.py:                                    *)
(*   - crawl_site      (the breadth-first fallback crawler with its        *)
(*                      auto-throttle), src/python/alt-text-scan.py 254-310 *)
(*   - parse_sitemap   (the recursive sitemap resolver),                   *)
(*                      src/python/alt-text-scan.py 184-251                *)
(*   - extract_urls_from_sitemap (main's sitemap reader), 108-181          *)
(*   - get_images / crawl_page and main's own page loop, with              *)
(*     process_image (the aggregation into images_data), 370-540, 672-691  *)
(*   - analyze_alt_text (the suggestion rules of one row), 543-607         *)
(*   - generate_alt_text and the row loop of alt-text-generator.py,        *)
(*                      src/alt-text-generator.py 568-662                  *)
(* The web is the environment: every response is chosen when the fetch is  *)
(* made, from the bounded sets defined below.                              *)
(***************************************************************************)
EXTENDS Integers, Sequences, FiniteSets, TLC

VARIABLES
    \* ---- crawl_site ----
    site,                \* the web the crawl runs against: [hrefs, fan]
    start_url,           \* parameter start_url
    max_pages,           \* parameter max_pages
    throttle,            \* parameter/local throttle (seconds)
    urls_to_visit,       \* local list urls_to_visit (the frontier)
    visited_urls,        \* local set visited_urls
    crawled_urls,        \* local set crawled_urls (the accepted pages)
    consecutive_errors,  \* local counter consecutive_errors
    pc,                  \* "loop" while in the while loop, "done" after return
    result,              \* the returned list (<<>> before the return)
    \* observations of crawl_site's calls
    fetch_count,         \* url -> number of requests.get(url) issued
    last_outcome,        \* what the latest loop iteration did
    slept,               \* TRUE iff time.sleep ran after the latest fetch
    run_throttle,        \* throttle when consecutive_errors was last set to 0
    \* ---- parse_sitemap ----
    sm_stack,            \* the call stack of parse_sitemap, innermost frame last
    sm_depth0,           \* the depth argument of the outermost call
    sm_pc,               \* "idle", "run" or "done"
    sm_result,           \* the set returned by the outermost call
    sm_fetched,          \* sitemap URLs requested so far
    sm_refetched,        \* TRUE once some sitemap URL was requested twice
    sm_last,             \* the latest step of the resolver: [kind, url, depth]
    \* ---- get_images / crawl_page / main's page loop / process_image ----
    domain,              \* the domain argument handed to process_image
    sampled_urls,        \* the pages still to be processed by the page loop
    images_data,         \* image URL -> record, the defaultdict images_data
    gi_consecutive_errors, \* get_images' local consecutive_errors
    gi_throttle,         \* get_images' local throttle
    gi_pc,               \* "idle", "loop", "done" or "raised"
    calls,               \* image URL -> the process_image calls made: [n, last]
    gi_last,             \* the latest page: [kind, url]
    \* ---- analyze_alt_text ----
    an_row,              \* the row under analysis: [alt_text, title, size_kb]
    an_out,              \* the list of suggestions of the row
    an_pc,               \* "idle", "row" or "done"
    \* ---- alt-text generator: the batch loop and generate_alt_text ----
    ga_model,            \* the --model argument
    ga_rows,             \* the rows of the CSV still to be processed
    ga_done,             \* the rows processed: [row, outcome, value, posts]
    ga_polls,            \* sleeps of the connectivity gate for the current row
    ga_pc                \* "idle", "rows", "saved" or "raised"

crawl_vars == <<site, start_url, max_pages, throttle, urls_to_visit, visited_urls,
                crawled_urls, consecutive_errors, pc, result, fetch_count,
                last_outcome, slept, run_throttle>>

sm_vars == <<sm_stack, sm_depth0, sm_pc, sm_result, sm_fetched, sm_refetched, sm_last>>

img_vars == <<domain, sampled_urls, images_data, gi_consecutive_errors,
              gi_throttle, gi_pc, calls, gi_last>>

an_vars == <<an_row, an_out, an_pc>>

gen_vars == <<ga_model, ga_rows, ga_done, ga_polls, ga_pc>>

vars == <<site, start_url, max_pages, throttle, urls_to_visit, visited_urls,
          crawled_urls, consecutive_errors, pc, result, fetch_count,
          last_outcome, slept, run_throttle,
          sm_stack, sm_depth0, sm_pc, sm_result, sm_fetched, sm_refetched, sm_last,
          domain, sampled_urls, images_data, gi_consecutive_errors,
          gi_throttle, gi_pc, calls, gi_last,
          an_row, an_out, an_pc,
          ga_model, ga_rows, ga_done, ga_polls, ga_pc>>

\* no page loop is running
ImagesIdle ==
    /\ domain = ""
    /\ sampled_urls = <<>>
    /\ images_data = <<>>
    /\ gi_consecutive_errors = [type |-> "int", value |-> 0]
    /\ gi_throttle = 0
    /\ gi_pc = "idle"
    /\ calls = <<>>
    /\ gi_last = [kind |-> "none"]

\* no row is under analysis
AnalysisIdle ==
    /\ an_row = <<>>
    /\ an_out = <<>>
    /\ an_pc = "idle"

\* no batch of the alt-text generator is running
GeneratorIdle ==
    /\ ga_model = ""
    /\ ga_rows = <<>>
    /\ ga_done = <<>>
    /\ ga_polls = 0
    /\ ga_pc = "idle"

(***************************************************************************)
(* Bounds of the model                                                     *)
(***************************************************************************)
\* largest max_pages argument tried
MaxPages == 2
\* longest CSV handed to the alt-text generator
MaxRows == 2
\* most sleeps of the connectivity gate before the connection is back
MaxPolls == 1
\* longest list of <a href> on an ordinary page
MaxLinks == 2
\* the index page of the large site links to /1 .. /FanOut
FanOut == 18
\* longest list of nested sitemaps in a sitemap index
MaxNested == 2

(***************************************************************************)
(* Program constants                                                       *)
(***************************************************************************)
\* if consecutive_errors > 5
ErrorTrigger == 5
\* throttle = min(throttle + 1, 10)
ThrottleCap == 10
\* def parse_sitemap(sitemap_url, base_domain, headers=None, depth=3)
DefaultDepth == 3
\* len(urls) > 50_000
UrlCap == 50000
\* initial throttle arguments tried (the function's default is 0)
InitThrottles == {0, 3}

Min(a, b) == IF a <= b THEN a ELSE b

(***************************************************************************)
(* URLs: urlparse(url) gives scheme, netloc and path; the path is a page   *)
(* name plus its extension as written (upper or lower case).               *)
(***************************************************************************)
Page(n) == [name |-> n, ext |-> ""]

Url(s, h, p) == [scheme |-> s, netloc |-> h, path |-> p]

AbsHref(u) == [kind |-> "abs", scheme |-> u.scheme, netloc |-> u.netloc, path |-> u.path]

RelHref(p) == [kind |-> "rel", scheme |-> "", netloc |-> "", path |-> p]

\* an href urljoin/urlparse rejects with ValueError (e.g. "http://[::1")
BadHref == [kind |-> "bad", scheme |-> "", netloc |-> "", path |-> Page(0)]

SeedNetloc == "site.org"

SeedUrl == Url("https", SeedNetloc, Page(0))

\* str.lower() on the extensions and content-type tokens the model uses
Lower(s) ==
    CASE s = ".PDF" -> ".pdf"
      [] s = ".Png" -> ".png"
      [] s = "Text/HTML" -> "text/html"
      [] OTHER -> s

\* urljoin(url, a_tag['href'])
urljoin(base, h) ==
    IF h.kind = "rel" THEN Url(base.scheme, base.netloc, h.path)
    ELSE Url(h.scheme, h.netloc, h.path)

\* the tuple of extensions of crawl_site's link filter
CrawlSkippedExtensions ==
    {".pdf", ".doc", ".docx", ".xls", ".xlsx", ".ppt", ".pptx", ".zip", ".rar",
     ".jpg", ".jpeg", ".png", ".gif", ".svg", ".tiff", ".mp4", ".mp3", ".avi", ".mov"}

\* parsed_link.path.lower().endswith((...))
HasSkippedExtension(link) == Lower(link.path.ext) \in CrawlSkippedExtensions

\* a mutant of IsInternalLink: the host test dropped
IsInternalLink_any(link, start) == TRUE

\* parsed_link.netloc == urlparse(start_url).netloc
IsInternalLink(link, start) == link.netloc = start.netloc

\* scheme + host, the origin the specification speaks of
Origin(u) == <<u.scheme, u.netloc>>

\* a mutant of NotYetAccepted: one page too many
LoopGuard_le(queue, crawled, maxp) == queue # <<>> /\ Cardinality(crawled) <= maxp

\* while urls_to_visit and len(crawled_urls) < max_pages
LoopGuard(queue, crawled, maxp) == queue # <<>> /\ Cardinality(crawled) < maxp

\* a mutant of AlreadyVisited: the visited test dropped
AlreadyVisited_never(url, visited) == FALSE

\* if url in visited_urls: continue
AlreadyVisited(url, visited) == url \in visited

\* Content-Type headers, as lists of their tokens
ContentTypes ==
    {<<"text/html">>, <<"Text/HTML", "charset=utf-8">>, <<"application/pdf">>,
     <<"application/xhtml+xml">>, <<>>}

\* 'text/html' in content_type  (content_type already lower-cased)
IsHtmlContentType(ct) == \E i \in 1..Len(ct) : Lower(ct[i]) = "text/html"

\* a mutant of AutoThrottle: the cap forgotten
AutoThrottle_nocap(t, errors) == IF errors > ErrorTrigger THEN t + 1 ELSE t

\* a mutant of AutoThrottle: the trigger fires one failure late
AutoThrottle_late(t, errors) ==
    IF errors > ErrorTrigger + 1 THEN Min(t + 1, ThrottleCap) ELSE t

\* if consecutive_errors > 5: throttle = min(throttle + 1, 10)
AutoThrottle(t, errors) == IF errors > ErrorTrigger THEN Min(t + 1, ThrottleCap) ELSE t

\* a mutant of ErrorsAfterFailure: the trigger re-armed after it fired
ErrorsAfterFailure_reset(errors) == IF errors + 1 > ErrorTrigger THEN 0 ELSE errors + 1

\* consecutive_errors += 1
ErrorsAfterFailure(errors) == errors + 1

\* for a_tag in soup.find_all('a', href=True): ... urls_to_visit.append(link)
\* Returns the frontier after the loop and whether the loop raised.
RECURSIVE FindLinks(_, _, _, _, _)
FindLinks(hrefs, url, start, visited, queue) ==
    IF hrefs = <<>> THEN [queue |-> queue, raised |-> FALSE]
    ELSE LET h == Head(hrefs) IN
         IF h.kind = "bad" THEN [queue |-> queue, raised |-> TRUE]
         ELSE LET link == urljoin(url, h) IN
              FindLinks(Tail(hrefs), url, start, visited,
                        IF HasSkippedExtension(link) THEN queue
                        ELSE IF IsInternalLink(link, start) /\ link \notin visited
                             THEN Append(queue, link)
                             ELSE queue)

\* list(crawled_urls): some enumeration of the set, each element once
ListOfSet(S) ==
    {s \in [1..Cardinality(S) -> S] : \A i, j \in 1..Cardinality(S) : s[i] = s[j] => i = j}

(***************************************************************************)
(* The web                                                                 *)
(***************************************************************************)
BoundedSeq(S, n) == UNION {[1..k -> S] : k \in 0..n}

\* the hrefs found on the pages of the small site
SmallHrefs ==
    {AbsHref(Url("https", SeedNetloc, Page(n))) : n \in {0, 1}}
    \cup {AbsHref(Url("http", SeedNetloc, Page(1))),
          AbsHref(Url("https", "other.org", Page(0))),
          AbsHref(Url("https", SeedNetloc, [name |-> 1, ext |-> ".PDF"])),
          RelHref(Page(1)),
          BadHref}

\* the small site: pages /0 and /1, and an index page linking to /1 and /2
SmallSite == [hrefs |-> SmallHrefs, fan |-> 2]

\* a site whose pages are an index of FanOut pages, pages without links and
\* pages that link to /1
FanSite == [hrefs |-> {AbsHref(Url("https", SeedNetloc, Page(1)))}, fan |-> FanOut]

\* the index page: links to /1 .. /fan in order
IndexLinks(fan) == [i \in 1..fan |-> AbsHref(Url("https", SeedNetloc, Page(i)))]

\* the lists of hrefs a fetched page of site s may carry; the link loop stops
\* at a rejected href, so such an href is listed only as the last one
PageLinks(s) ==
    {l \in BoundedSeq(s.hrefs, MaxLinks) : \A i \in 1..(Len(l) - 1) : l[i].kind # "bad"}
    \cup {IndexLinks(s.fan)}

(***************************************************************************)
(* crawl_site                                                              *)
(***************************************************************************)
SitemapIdle ==
    /\ sm_stack = <<>>
    /\ sm_depth0 = 0
    /\ sm_pc = "idle"
    /\ sm_result = {}
    /\ sm_fetched = {}
    /\ sm_refetched = FALSE
    /\ sm_last = [kind |-> "none", url |-> 0, depth |-> 0]

InitCrawl(s) ==
    /\ site = s
    /\ start_url = SeedUrl
    /\ max_pages \in 0..MaxPages
    /\ throttle \in InitThrottles
    /\ urls_to_visit = <<start_url>>
    /\ visited_urls = {}
    /\ crawled_urls = {}
    /\ consecutive_errors = 0
    /\ pc = "loop"
    /\ result = <<>>
    /\ fetch_count = <<>>
    /\ last_outcome = "none"
    /\ slept = TRUE
    /\ run_throttle = throttle
    /\ SitemapIdle
    /\ ImagesIdle
    /\ AnalysisIdle
    /\ GeneratorIdle

Init == InitCrawl(SmallSite)

InitThrottle == InitCrawl(FanSite)

\* requests.get(url, ...) is issued for url
Fetched(url) ==
    fetch_count' = IF url \in DOMAIN fetch_count
                   THEN [fetch_count EXCEPT ![url] = @ + 1]
                   ELSE fetch_count @@ (url :> 1)

\* url = urls_to_visit.pop(0); if url in visited_urls: continue
CrawlSkipVisited ==
    /\ pc = "loop"
    /\ LoopGuard(urls_to_visit, crawled_urls, max_pages)
    /\ AlreadyVisited(Head(urls_to_visit), visited_urls)
    /\ urls_to_visit' = Tail(urls_to_visit)
    /\ last_outcome' = "skip"
    /\ UNCHANGED <<site, start_url, max_pages, throttle, visited_urls, crawled_urls,
                   consecutive_errors, pc, result, fetch_count, slept, run_throttle>>
    /\ UNCHANGED <<sm_vars, img_vars, an_vars, gen_vars>>

\* a mutant of CrawlFetchException: the failed URL is put back on the frontier
CrawlFetchException_requeued ==
    /\ pc = "loop"
    /\ LoopGuard(urls_to_visit, crawled_urls, max_pages)
    /\ ~AlreadyVisited(Head(urls_to_visit), visited_urls)
    /\ LET url == Head(urls_to_visit) IN
        /\ urls_to_visit' = Append(Tail(urls_to_visit), url)
        /\ visited_urls' = visited_urls \cup {url}
        /\ Fetched(url)
        /\ consecutive_errors' = ErrorsAfterFailure(consecutive_errors)
        /\ throttle' = AutoThrottle(throttle, ErrorsAfterFailure(consecutive_errors))
        /\ slept' = FALSE
        /\ last_outcome' = "exception"
    /\ UNCHANGED <<site, start_url, max_pages, crawled_urls, pc, result, run_throttle>>
    /\ UNCHANGED <<sm_vars, img_vars, an_vars, gen_vars>>

\* requests.get, response.text or BeautifulSoup raises: the except branch
CrawlFetchException ==
    /\ pc = "loop"
    /\ LoopGuard(urls_to_visit, crawled_urls, max_pages)
    /\ ~AlreadyVisited(Head(urls_to_visit), visited_urls)
    /\ LET url == Head(urls_to_visit) IN
        /\ urls_to_visit' = Tail(urls_to_visit)
        /\ visited_urls' = visited_urls \cup {url}
        /\ Fetched(url)
        /\ consecutive_errors' = ErrorsAfterFailure(consecutive_errors)
        /\ throttle' = AutoThrottle(throttle, ErrorsAfterFailure(consecutive_errors))
        /\ slept' = FALSE
        /\ last_outcome' = "exception"
    /\ UNCHANGED <<site, start_url, max_pages, crawled_urls, pc, result, run_throttle>>
    /\ UNCHANGED <<sm_vars, img_vars, an_vars, gen_vars>>

\* a mutant of CrawlFetchNonHtml: a non-HTML response counted as an error
CrawlFetchNonHtml_error ==
    /\ pc = "loop"
    /\ LoopGuard(urls_to_visit, crawled_urls, max_pages)
    /\ ~AlreadyVisited(Head(urls_to_visit), visited_urls)
    /\ \E ct \in ContentTypes : ~IsHtmlContentType(ct)
    /\ LET url == Head(urls_to_visit) IN
        /\ urls_to_visit' = Tail(urls_to_visit)
        /\ visited_urls' = visited_urls \cup {url}
        /\ Fetched(url)
        /\ consecutive_errors' = ErrorsAfterFailure(consecutive_errors)
        /\ throttle' = AutoThrottle(throttle, ErrorsAfterFailure(consecutive_errors))
        /\ slept' = FALSE
        /\ last_outcome' = "nonhtml"
    /\ UNCHANGED <<site, start_url, max_pages, crawled_urls, pc, result, run_throttle>>
    /\ UNCHANGED <<sm_vars, img_vars, an_vars, gen_vars>>

\* the response arrives and 'text/html' is not in its Content-Type: continue
CrawlFetchNonHtml ==
    /\ pc = "loop"
    /\ LoopGuard(urls_to_visit, crawled_urls, max_pages)
    /\ ~AlreadyVisited(Head(urls_to_visit), visited_urls)
    /\ \E ct \in ContentTypes : ~IsHtmlContentType(ct)
    /\ LET url == Head(urls_to_visit) IN
        /\ urls_to_visit' = Tail(urls_to_visit)
        /\ visited_urls' = visited_urls \cup {url}
        /\ Fetched(url)
        /\ slept' = FALSE
        /\ last_outcome' = "nonhtml"
    /\ UNCHANGED <<site, start_url, max_pages, throttle, crawled_urls,
                   consecutive_errors, pc, result, run_throttle>>
    /\ UNCHANGED <<sm_vars, img_vars, an_vars, gen_vars>>

\* the response is HTML: the page is accepted and its links are enqueued;
\* an href that urljoin rejects raises inside the link loop (except branch)
CrawlFetchHtml ==
    /\ pc = "loop"
    /\ LoopGuard(urls_to_visit, crawled_urls, max_pages)
    /\ ~AlreadyVisited(Head(urls_to_visit), visited_urls)
    /\ \E ct \in ContentTypes : IsHtmlContentType(ct)
    /\ \E hrefs \in PageLinks(site) :
        LET url == Head(urls_to_visit)
            r == FindLinks(hrefs, url, start_url, visited_urls \cup {url},
                           Tail(urls_to_visit))
        IN  /\ urls_to_visit' = r.queue
            /\ visited_urls' = visited_urls \cup {url}
            /\ Fetched(url)
            /\ crawled_urls' = crawled_urls \cup {url}
            /\ IF r.raised
               THEN /\ consecutive_errors' = ErrorsAfterFailure(consecutive_errors)
                    /\ throttle' = AutoThrottle(throttle,
                                                ErrorsAfterFailure(consecutive_errors))
                    /\ slept' = FALSE
                    /\ last_outcome' = "html_exception"
                    /\ UNCHANGED run_throttle
               ELSE /\ consecutive_errors' = 0
                    /\ throttle' = throttle
                    /\ slept' = TRUE
                    /\ last_outcome' = "html"
                    /\ run_throttle' = throttle
    /\ UNCHANGED <<site, start_url, max_pages, pc, result>>
    /\ UNCHANGED <<sm_vars, img_vars, an_vars, gen_vars>>

\* the while condition is false: return list(crawled_urls)
CrawlReturn ==
    /\ pc = "loop"
    /\ ~LoopGuard(urls_to_visit, crawled_urls, max_pages)
    /\ pc' = "done"
    /\ result' \in ListOfSet(crawled_urls)
    /\ last_outcome' = "return"
    /\ UNCHANGED <<site, start_url, max_pages, throttle, urls_to_visit, visited_urls,
                   crawled_urls, consecutive_errors, fetch_count, slept, run_throttle>>
    /\ UNCHANGED <<sm_vars, img_vars, an_vars, gen_vars>>

Next ==
    \/ CrawlSkipVisited
    \/ CrawlFetchException
    \/ CrawlFetchNonHtml
    \/ CrawlFetchHtml
    \/ CrawlReturn

Spec == Init /\ [][Next]_vars

SpecThrottle == InitThrottle /\ [][Next]_vars

(***************************************************************************)
(* Properties of crawl_site                                                *)
(***************************************************************************)
\* the URLs in a sequence
Range(q) == {q[i] : i \in 1..Len(q)}

\* the loop iterations that issued a fetch
FetchOutcomes == {"exception", "nonhtml", "html", "html_exception"}

\* C1 as claimed: every URL in the frontier, in the accepted set and in the
\* returned list has the origin (scheme + host) of the seed.
C1_SameOriginOnly ==
    \A u \in Range(urls_to_visit) \cup crawled_urls \cup Range(result) :
        Origin(u) = Origin(start_url)

\* C1 amended: every URL in the frontier, in the accepted set and in the
\* returned list has the netloc of the seed (its scheme may differ).
C1_SameNetlocOnly ==
    \A u \in Range(urls_to_visit) \cup crawled_urls \cup Range(result) :
        u.netloc = start_url.netloc

\* links were followed: the crawl returned a page other than the seed
C1_Witness ==
    /\ pc = "done"
    /\ \E i \in 1..Len(result) : result[i] # start_url

\* C2: every URL is requested at most once over the whole crawl, and the
\* requested URLs are exactly the visited ones (a URL is marked visited when
\* it is dequeued for its fetch; a dequeued visited URL is not fetched).
C2_FetchedAtMostOnce ==
    /\ DOMAIN fetch_count = visited_urls
    /\ \A u \in DOMAIN fetch_count : fetch_count[u] = 1

\* a URL whose fetch failed was dequeued a second time and skipped
C2_Witness ==
    /\ last_outcome = "skip"
    /\ visited_urls \ crawled_urls # {}

\* C3: at most max_pages URLs are accepted, the accepted URLs are visited
\* ones, the call returns only when the frontier is empty or max_pages URLs
\* are accepted, and the returned list enumerates the accepted set without
\* duplicates.
C3_AcceptedBounded ==
    /\ Cardinality(crawled_urls) <= max_pages
    /\ crawled_urls \subseteq visited_urls
    /\ pc = "done" =>
        /\ urls_to_visit = <<>> \/ Cardinality(crawled_urls) >= max_pages
        /\ Len(result) <= max_pages
        /\ Range(result) = crawled_urls
        /\ \A i, j \in 1..Len(result) : result[i] = result[j] => i = j

\* the crawl stopped at the page bound with URLs still in the frontier
C3_Witness ==
    /\ pc = "done"
    /\ max_pages >= 2
    /\ Len(result) = max_pages
    /\ urls_to_visit # <<>>

\* C4: in a run of consecutive failures that began with throttle 0, the
\* throttle is 0 up to the 5th failure, 1 after the 6th, 10 after 11 more,
\* and it never exceeds 10.
C4_ThrottleSchedule ==
    /\ run_throttle <= ThrottleCap => throttle <= ThrottleCap
    /\ run_throttle = 0 =>
        /\ consecutive_errors <= 5 => throttle = 0
        /\ consecutive_errors = 6 => throttle = 1
        /\ consecutive_errors >= 6 + 11 => throttle = 10

\* 17 failures in a row after the counter was last reset at throttle 0
C4_Witness ==
    /\ run_throttle = 0
    /\ consecutive_errors = 6 + 11
    /\ throttle = 10

\* C5 as claimed: a step that raises the throttle re-arms the trigger, so
\* the counter no longer exceeds 5 after it.
C5_TriggerReset ==
    [][throttle' # throttle => consecutive_errors' <= ErrorTrigger]_vars

\* C5 amended: every failure that leaves the counter above 5 raises the
\* throttle by exactly 1 (capped at 10) and the counter keeps counting; the
\* throttle changes on no other step, and the counter returns to 0 only
\* when an HTML page was processed without an exception.
C5_EveryFailureAboveTrigger ==
    [][/\ consecutive_errors' # consecutive_errors =>
            \/ /\ consecutive_errors' = consecutive_errors + 1
               /\ last_outcome' \in {"exception", "html_exception"}
            \/ /\ consecutive_errors' = 0
               /\ last_outcome' = "html"
       /\ (consecutive_errors' = consecutive_errors + 1 /\ consecutive_errors' > 5) =>
            throttle' = Min(throttle + 1, 10)
       /\ ~(consecutive_errors' = consecutive_errors + 1 /\ consecutive_errors' > 5) =>
            throttle' = throttle
      ]_vars

\* the 6th and the 7th consecutive failure each raised the throttle
C5_Witness ==
    /\ consecutive_errors = 7
    /\ throttle = run_throttle + 2

\* C6 as claimed: after a fetch that completed without an exception, HTML
\* or not, the consecutive-error counter is 0.
C6_ResetOnAnyResponse ==
    last_outcome \in {"nonhtml", "html"} => consecutive_errors = 0

\* C7 as claimed: after every fetch attempt, successful or not, a throttle
\* sleep has been applied.
C7_SleepAfterEveryFetch ==
    last_outcome \in FetchOutcomes => slept

\* C8: a fetch answered with a non-HTML Content-Type removes the URL from
\* the frontier and adds it to visited; the accepted set, the rest of the
\* frontier, the error counter and the throttle are unchanged.
C8_NonHtmlDiscarded ==
    [][last_outcome' = "nonhtml" =>
        /\ ~(Head(urls_to_visit) \in visited_urls)
        /\ visited_urls' = visited_urls \cup {Head(urls_to_visit)}
        /\ urls_to_visit' = Tail(urls_to_visit)
        /\ crawled_urls' = crawled_urls
        /\ consecutive_errors' = consecutive_errors
        /\ throttle' = throttle
      ]_vars

\* a non-HTML response arrived while errors were counted and URLs queued
C8_Witness ==
    /\ last_outcome = "nonhtml"
    /\ consecutive_errors > 0
    /\ crawled_urls # {}

(***************************************************************************)
(* parse_sitemap                                                           *)
(***************************************************************************)
\* the sitemap URLs of the site
SitemapUrls == {"sitemap.xml", "sitemap-1.xml"}

\* one entry that stands for a block of UrlCap + 1 distinct <url><loc> values
\* listed together in one URL set
UrlBlock == "pages-1-to-50001"

\* the <url><loc> values a URL set may list
PageLocs == {"page-a", "page-b", UrlBlock}

\* len(urls): the block counts for the URLs it stands for
UrlCount(urls) ==
    IF UrlBlock \in urls
    THEN Cardinality(urls \ {UrlBlock}) + UrlCap + 1
    ELSE Cardinality(urls)

\* the lists of <sitemap><loc> values a sitemap index may carry
IndexDocs == BoundedSeq(SitemapUrls, MaxNested)

\* responses after which the call returns its (still empty) set: requests.get
\* raises, status 403, another status than 200, a body that is neither a
\* sitemap index nor a URL set, a body ET.fromstring rejects
SitemapFailures == {"exception", "status_403", "status_other", "not_xml", "parse_error"}

\* a mutant of DepthExhausted: the budget is off by one
DepthExhausted_late(depth, urls) == depth < 0 \/ UrlCount(urls) > UrlCap

\* if depth <= 0 or len(urls) > 50_000
DepthExhausted(depth, urls) == depth <= 0 \/ UrlCount(urls) > UrlCap

\* a frame of parse_sitemap(sitemap_url, base_domain, headers, depth):
\* urls is its local set, todo the nested <sitemap><loc> values still to be
\* followed, at is "enter" before the fetch and "index" inside the loop
Frame(url, depth) ==
    [url |-> url, depth |-> depth, urls |-> {}, todo |-> <<>>, at |-> "enter"]

CrawlIdle ==
    /\ site = SmallSite
    /\ start_url = SeedUrl
    /\ max_pages = 0
    /\ throttle = 0
    /\ urls_to_visit = <<>>
    /\ visited_urls = {}
    /\ crawled_urls = {}
    /\ consecutive_errors = 0
    /\ pc = "idle"
    /\ result = <<>>
    /\ fetch_count = <<>>
    /\ last_outcome = "none"
    /\ slept = TRUE
    /\ run_throttle = 0

\* parse_sitemap(sitemap_url, domain) is called; depth defaults to 3
InitSitemap ==
    /\ sm_depth0 \in 0..DefaultDepth
    /\ sm_stack = <<Frame("sitemap.xml", sm_depth0)>>
    /\ sm_pc = "run"
    /\ sm_result = {}
    /\ sm_fetched = {}
    /\ sm_refetched = FALSE
    /\ sm_last = [kind |-> "call", url |-> "sitemap.xml", depth |-> sm_depth0]
    /\ CrawlIdle
    /\ ImagesIdle
    /\ AnalysisIdle
    /\ GeneratorIdle

Top == sm_stack[Len(sm_stack)]

\* requests.get(sitemap_url, headers=headers, timeout=10) is issued
SitemapFetched(f) ==
    /\ sm_fetched' = sm_fetched \cup {f.url}
    /\ sm_refetched' = (sm_refetched \/ f.url \in sm_fetched)

\* the innermost call returns value: urls.update(...) in its caller, or the
\* result of the outermost call
SitemapReturns(value) ==
    IF Len(sm_stack) = 1
    THEN /\ sm_stack' = <<>>
         /\ sm_result' = value
         /\ sm_pc' = "done"
    ELSE /\ sm_stack' = [i \in 1..(Len(sm_stack) - 1) |->
                            IF i = Len(sm_stack) - 1
                            THEN [sm_stack[i] EXCEPT !.urls = @ \cup value]
                            ELSE sm_stack[i]]
         /\ UNCHANGED <<sm_result, sm_pc>>

\* the depth/size guard is true: return urls without a fetch
SmStop ==
    /\ sm_pc = "run"
    /\ Top.at = "enter"
    /\ DepthExhausted(Top.depth, Top.urls)
    /\ SitemapReturns(Top.urls)
    /\ sm_last' = [kind |-> "stop", url |-> Top.url, depth |-> Top.depth]
    /\ UNCHANGED <<sm_depth0, sm_fetched, sm_refetched>>
    /\ UNCHANGED <<crawl_vars, img_vars, an_vars, gen_vars>>

\* a mutant of SmFetchFailed: the failure is not caught in the failing call but
\* in its caller, which gives up the rest of its index
SmFetchFailed_propagates ==
    /\ sm_pc = "run"
    /\ Top.at = "enter"
    /\ ~DepthExhausted(Top.depth, Top.urls)
    /\ \E outcome \in SitemapFailures :
        sm_last' = [kind |-> outcome, url |-> Top.url, depth |-> Top.depth]
    /\ SitemapFetched(Top)
    /\ IF Len(sm_stack) = 1
       THEN SitemapReturns(Top.urls)
       ELSE /\ sm_stack' = [i \in 1..(Len(sm_stack) - 1) |->
                               IF i = Len(sm_stack) - 1
                               THEN [sm_stack[i] EXCEPT !.todo = <<>>]
                               ELSE sm_stack[i]]
            /\ UNCHANGED <<sm_result, sm_pc>>
    /\ UNCHANGED sm_depth0
    /\ UNCHANGED <<crawl_vars, img_vars, an_vars, gen_vars>>

\* the fetch fails, is refused, or its body is no sitemap: return urls
SmFetchFailed ==
    /\ sm_pc = "run"
    /\ Top.at = "enter"
    /\ ~DepthExhausted(Top.depth, Top.urls)
    /\ \E outcome \in SitemapFailures :
        sm_last' = [kind |-> outcome, url |-> Top.url, depth |-> Top.depth]
    /\ SitemapFetched(Top)
    /\ SitemapReturns(Top.urls)
    /\ UNCHANGED sm_depth0
    /\ UNCHANGED <<crawl_vars, img_vars, an_vars, gen_vars>>

\* the body holds <sitemapindex: the loop over its <sitemap><loc> begins
SmFetchIndex ==
    /\ sm_pc = "run"
    /\ Top.at = "enter"
    /\ ~DepthExhausted(Top.depth, Top.urls)
    /\ \E locs \in IndexDocs :
        sm_stack' = [sm_stack EXCEPT ![Len(sm_stack)] =
                        [@ EXCEPT !.todo = locs, !.at = "index"]]
    /\ SitemapFetched(Top)
    /\ sm_last' = [kind |-> "index", url |-> Top.url, depth |-> Top.depth]
    /\ UNCHANGED <<sm_depth0, sm_result, sm_pc>>
    /\ UNCHANGED <<crawl_vars, img_vars, an_vars, gen_vars>>

\* the body holds <urlset: every <url><loc> that is_html_url accepts is added
SmFetchUrlset ==
    /\ sm_pc = "run"
    /\ Top.at = "enter"
    /\ ~DepthExhausted(Top.depth, Top.urls)
    /\ \E listed \in SUBSET PageLocs : \E html \in SUBSET listed :
        SitemapReturns(Top.urls \cup html)
    /\ SitemapFetched(Top)
    /\ sm_last' = [kind |-> "urlset", url |-> Top.url, depth |-> Top.depth]
    /\ UNCHANGED sm_depth0
    /\ UNCHANGED <<crawl_vars, img_vars, an_vars, gen_vars>>

\* urls.update(parse_sitemap(loc.text.strip(), base_domain, headers, depth - 1))
SmNested ==
    /\ sm_pc = "run"
    /\ Top.at = "index"
    /\ Top.todo # <<>>
    /\ sm_stack' = Append([sm_stack EXCEPT ![Len(sm_stack)] =
                              [@ EXCEPT !.todo = Tail(@)]],
                          Frame(Head(Top.todo), Top.depth - 1))
    /\ sm_last' = [kind |-> "call", url |-> Head(Top.todo), depth |-> Top.depth - 1]
    /\ UNCHANGED <<sm_depth0, sm_result, sm_pc, sm_fetched, sm_refetched>>
    /\ UNCHANGED <<crawl_vars, img_vars, an_vars, gen_vars>>

\* the loop over the index is over: return urls
SmIndexDone ==
    /\ sm_pc = "run"
    /\ Top.at = "index"
    /\ Top.todo = <<>>
    /\ SitemapReturns(Top.urls)
    /\ sm_last' = [kind |-> "return", url |-> Top.url, depth |-> Top.depth]
    /\ UNCHANGED <<sm_depth0, sm_fetched, sm_refetched>>
    /\ UNCHANGED <<crawl_vars, img_vars, an_vars, gen_vars>>

NextSitemap ==
    \/ SmStop
    \/ SmFetchFailed
    \/ SmFetchIndex
    \/ SmFetchUrlset
    \/ SmNested
    \/ SmIndexDone

\* the resolver is sequential code: it always takes its next step
SpecSitemap == InitSitemap /\ [][NextSitemap]_vars /\ WF_vars(NextSitemap)

(***************************************************************************)
(* Properties of parse_sitemap                                             *)
(***************************************************************************)
\* the steps of the resolver that issued a fetch
SitemapFetchKinds == SitemapFailures \cup {"index", "urlset"}

\* C9: sitemap resolution terminates for every web of sitemap indexes,
\* self-referential and cyclic ones included; a call with depth budget 0
\* issues no fetch, and the nesting of calls never exceeds the budget.
C9_ResolutionTerminates ==
    /\ [](sm_last.kind \in SitemapFetchKinds => sm_last.depth >= 1)
    /\ [](Len(sm_stack) <= sm_depth0 + 1)
    /\ [](\A i \in 1..Len(sm_stack) : sm_stack[i].depth = sm_depth0 - (i - 1))
    /\ <>(sm_pc = "done")

\* the resolution of an index that lists itself has ended, after the index
\* was fetched again at a deeper level
C9_Witness ==
    /\ sm_pc = "done"
    /\ sm_depth0 = DefaultDepth
    /\ sm_fetched = {"sitemap.xml"}
    /\ sm_refetched

\* C10 as claimed: no sitemap URL is fetched twice in one resolution.
C10_NoSitemapFetchedTwice == ~sm_refetched

Accumulated == sm_result \cup UNION {sm_stack[i].urls : i \in 1..Len(sm_stack)}

\* C12 as claimed: once more than 50,000 URLs have been accumulated, no
\* further sitemap is fetched and the accumulated set no longer grows.
C12_StopsAboveCap ==
    [][UrlCount(Accumulated) > UrlCap =>
          /\ sm_last'.kind \notin SitemapFetchKinds
          /\ Accumulated' = Accumulated
      ]_vars

(***************************************************************************)
(* extract_urls_from_sitemap                                               *)
(***************************************************************************)
\* EXCLUDED_EXTENSIONS of extract_urls_from_sitemap
ExcludedExtensions ==
    {".pdf", ".doc", ".docx", ".zip", ".rar", ".xlsx", ".ppt", ".pptx", ".xls",
     ".txt", ".rss"}

\* the <url><loc> texts a URL set may list, each cut into the pieces of its
\* string: the path up to its extension, the extension, and what follows
ExtractLocs ==
    { <<"/about">>,
      <<"/report", ".pdf">>,
      <<"/Guide", ".PDF">>,
      <<"/report", ".pdf", "?dl=1">>,
      <<"/manual", ".doc", "#p2">>,
      <<"/search", "?f=x", ".pdf">> }

\* the pieces that begin a query string or a fragment
OpensQueryOrFragment(piece) == piece \in {"?dl=1", "?f=x", "#p2"}

\* urlparse(url).path: the pieces before the query string and the fragment
RECURSIVE UrlPath(_)
UrlPath(loc) ==
    IF loc = <<>> \/ OpensQueryOrFragment(Head(loc)) THEN <<>>
    ELSE <<Head(loc)>> \o UrlPath(Tail(loc))

\* full_url.lower().endswith(EXCLUDED_EXTENSIONS): the test is made on the
\* whole text of the <loc>
EndsWithExcluded(loc) == Lower(loc[Len(loc)]) \in ExcludedExtensions

\* the <loc> values of a URL set that are added to urls
Kept(listed) == {loc \in listed : ~EndsWithExcluded(loc)}

\* main: urls = extract_urls_from_sitemap(args.sitemap); depth defaults to 3
InitExtract ==
    /\ sm_depth0 \in 0..DefaultDepth
    /\ sm_stack = <<Frame("sitemap.xml", sm_depth0)>>
    /\ sm_pc = "run"
    /\ sm_result = {}
    /\ sm_fetched = {}
    /\ sm_refetched = FALSE
    /\ sm_last = [kind |-> "call", url |-> "sitemap.xml", depth |-> sm_depth0]
    /\ CrawlIdle
    /\ ImagesIdle
    /\ AnalysisIdle
    /\ GeneratorIdle

\* the body holds <urlset: every <url><loc> that does not end with an excluded
\* extension is added, and list(urls) is returned
SmExtractUrlset ==
    /\ sm_pc = "run"
    /\ Top.at = "enter"
    /\ ~DepthExhausted(Top.depth, Top.urls)
    /\ \E listed \in SUBSET ExtractLocs :
        /\ SitemapReturns(Top.urls \cup Kept(listed))
        /\ sm_last' = [kind |-> "urlset", url |-> Top.url, depth |-> Top.depth,
                       listed |-> listed]
    /\ SitemapFetched(Top)
    /\ UNCHANGED sm_depth0
    /\ UNCHANGED <<crawl_vars, img_vars, an_vars, gen_vars>>

\* extract_urls_from_sitemap has the guard, the failure branches and the index
\* loop of parse_sitemap; only the handling of a URL set differs
NextExtract ==
    \/ SmStop
    \/ SmFetchFailed
    \/ SmFetchIndex
    \/ SmExtractUrlset
    \/ SmNested
    \/ SmIndexDone

SpecExtract == InitExtract /\ [][NextExtract]_vars /\ WF_vars(NextExtract)

\* the path of a URL ends in a denylisted extension
PathIsDenylisted(loc) ==
    /\ UrlPath(loc) # <<>>
    /\ Lower(UrlPath(loc)[Len(UrlPath(loc))]) \in ExcludedExtensions

\* C13 as claimed: of the <url><loc> values of a fetched URL set, exactly the
\* ones whose path does not end in a denylisted extension are returned, a
\* query string or a fragment after the path making no difference.
C13_DenylistOnPath ==
    [][sm_last'.kind = "urlset" =>
          \A loc \in sm_last'.listed :
              loc \in Accumulated' <=> ~PathIsDenylisted(loc)
      ]_vars

(***************************************************************************)
(* Pages and <img> elements                                                *)
(***************************************************************************)
\* longest list of pages handed to a page loop
MaxSampled == 2

\* Python's None
None == "<None>"

\* a page URL as urlparse sees it; params and query are carried with the path
PageUrl(s, h, p, f) == [scheme |-> s, netloc |-> h, path |-> p, fragment |-> f]

\* the pages a run may be given
Pages ==
    { PageUrl("https", SeedNetloc, "/about", ""),
      PageUrl("https", SeedNetloc, "/about", "team"),
      PageUrl("https", "www.other.org", "/about", "") }

\* the domain argument: the site's URL, or main's placeholder "unknown", which
\* urlparse reads as a bare path
SiteDomain == PageUrl("https", SeedNetloc, "", "")
UnknownDomain == PageUrl("", "", "unknown", "")

ImgPath(name, ext) == [name |-> name, ext |-> ext]

\* the values of src: a path on the page's host, an absolute URL, a text
\* urljoin rejects, no src at all
LogoSrc == RelHref(ImgPath("/logo", ".png"))
ChartSrc == RelHref(ImgPath("/chart", ".bmp"))
BadSrc == [BadHref EXCEPT !.path = ImgPath("[", "")]
NoSrc == [kind |-> "none", scheme |-> "", netloc |-> "", path |-> ImgPath("", "")]

\* an <img> with the given src and no other attribute, in a parent without
\* attributes; content_length is what the server reports for the image, in KB
BareImg(src) ==
    [src |-> src, alt |-> None, title |-> None, longdesc |-> None,
     aria_label |-> None, aria_describedby |-> None, described_text |-> None,
     style |-> "", parent_style |-> "", aria_hidden |-> None,
     parent_aria_hidden |-> None, hidden |-> FALSE, parent_hidden |-> FALSE,
     content_length |-> 0]

\* the <img> elements found on the pages
RichLogo ==
    [BareImg(LogoSrc) EXCEPT !.alt = "Site logo", !.title = "Home",
                              !.longdesc = "/logo.txt", !.aria_label = "Logo",
                              !.aria_describedby = "d1",
                              !.described_text = "Our logo",
                              !.content_length = 300]
StyleHiddenLogo == [BareImg(LogoSrc) EXCEPT !.style = "display: none"]
ParentHiddenLogo == [BareImg(LogoSrc) EXCEPT !.parent_aria_hidden = "true"]

\* the lists of <img> a fetched page may hold
PageTags ==
    { <<>>,
      <<RichLogo>>,
      <<BareImg(LogoSrc)>>,
      <<RichLogo, BareImg(LogoSrc)>>,
      <<BareImg(LogoSrc), RichLogo>>,
      <<BareImg(NoSrc), RichLogo>>,
      <<StyleHiddenLogo>>,
      <<ParentHiddenLogo, BareImg(LogoSrc)>>,
      <<BareImg(ChartSrc)>>,
      <<RichLogo, BareImg(BadSrc), BareImg(LogoSrc)>>,
      <<BareImg(BadSrc)>> }

\* the lists of distinct pages a page loop may be given
SampledLists ==
    {l \in BoundedSeq(Pages, MaxSampled) :
        \A i, j \in 1..Len(l) : l[i] = l[j] => i = j}

(***************************************************************************)
(* is_valid_image, is_image_visible, get_relative_url, process_image        *)
(***************************************************************************)
IMAGE_EXTENSIONS == {".jpg", ".jpeg", ".png", ".gif", ".svg", ".tiff", ".avif", ".webp"}

\* urlparse(url).path.lower().endswith(IMAGE_EXTENSIONS)
is_valid_image(url) == Lower(url.path.ext) \in IMAGE_EXTENSIONS

\* any(hidden in style.lower() for hidden in [...]): the declarations are
\* looked for as written, with one space after the colon
HasHidingDeclaration(style) ==
    Lower(style) \in {"display: none", "visibility: hidden", "opacity: 0"}

is_image_visible(img) ==
    /\ ~(HasHidingDeclaration(img.style) \/ HasHidingDeclaration(img.parent_style))
    /\ ~(img.aria_hidden = "true" \/ img.parent_aria_hidden = "true")
    /\ ~(img.hidden \/ img.parent_hidden)

\* a mutant of get_relative_url: the fragment is dropped with scheme and host
get_relative_url_nofragment(url, base_domain) ==
    IF url.netloc = base_domain.netloc
    THEN [url EXCEPT !.scheme = "", !.netloc = "", !.fragment = ""]
    ELSE url

\* urlunparse(('', '', path, params, query, fragment)) when the page is on the
\* host of base_domain, the URL as it is otherwise
get_relative_url(url, base_domain) ==
    IF url.netloc = base_domain.netloc
    THEN [url EXCEPT !.scheme = "", !.netloc = ""]
    ELSE url

\* the value of the defaultdict for a key not yet present; longdesc,
\* aria_label and aria_describedby are absent keys there, read with .get()
DefaultRecord ==
    [count |-> 0, alt_text |-> None, title |-> None, longdesc |-> None,
     aria_label |-> None, aria_describedby |-> None, source_urls |-> <<>>,
     size_kb |-> 0]

\* images_data[img_url]
ImageRecord(data, img_url) ==
    IF img_url \in DOMAIN data THEN data[img_url] ELSE DefaultRecord

\* a mutant of CountAfter: the count is set, not incremented
CountAfter_set(count) == 1

\* "count": images_data[img_url]["count"] + 1
CountAfter(count) == count + 1

\* a mutant of Overwritten: a missing attribute keeps the stored value
Overwritten_kept(stored, seen) == IF seen = None THEN stored ELSE seen

\* dict.update: the value of the sighting replaces the stored one
Overwritten(stored, seen) == seen

\* a mutant of WithSource: the source is appended on every sighting
WithSource_always(source_urls, source_url) == Append(source_urls, source_url)

\* a mutant of WithSource: the source of the first sighting is not stored
WithSource_skipfirst(source_urls, source_url) ==
    IF source_urls = <<>> \/ source_url \in Range(source_urls) THEN source_urls
    ELSE Append(source_urls, source_url)

\* if source_url not in source_urls: source_urls.append(source_url)
WithSource(source_urls, source_url) ==
    IF source_url \in Range(source_urls) THEN source_urls
    ELSE Append(source_urls, source_url)

\* the text of the element aria-describedby names, looked up under the parent
DescribedText(img) ==
    IF img.aria_describedby # None /\ img.described_text # None
    THEN img.described_text
    ELSE None

\* images_data after process_image(img_url, img, page_url, domain, images_data)
process_image(img_url, img, page_url, base_domain, data) ==
    LET stored == ImageRecord(data, img_url)
        updated ==
            [count |-> CountAfter(stored.count),
             alt_text |-> Overwritten(stored.alt_text, img.alt),
             title |-> Overwritten(stored.title, img.title),
             longdesc |-> Overwritten(stored.longdesc, img.longdesc),
             aria_label |-> Overwritten(stored.aria_label, img.aria_label),
             aria_describedby |->
                 Overwritten(stored.aria_describedby, DescribedText(img)),
             size_kb |-> img.content_length,
             source_urls |->
                 WithSource(stored.source_urls,
                            get_relative_url(page_url, base_domain))]
    IN [u \in DOMAIN data \cup {img_url} |->
           IF u = img_url THEN updated ELSE data[u]]

\* what a call of process_image reads from the <img> it is given
Sighting(img) ==
    [alt |-> img.alt, title |-> img.title, longdesc |-> img.longdesc,
     aria_label |-> img.aria_label, described_text |-> DescribedText(img)]

\* the record of calls after a call of process_image for img_url with img:
\* the number of calls so far and the sighting of the latest one
Called(cl, img_url, img) ==
    [u \in DOMAIN cl \cup {img_url} |->
        IF u = img_url
        THEN [n |-> (IF u \in DOMAIN cl THEN cl[u].n ELSE 0) + 1,
              last |-> Sighting(img)]
        ELSE cl[u]]

\* a mutant of SeenAtStart: the images recorded so far count as seen
SeenAtStart_recorded(data) == DOMAIN data

\* seen_images = set(), at the start of every call of crawl_page
SeenAtStart(data) == {}

\* the loop of crawl_page over img_tags; raised tells that urljoin raised
RECURSIVE CrawlPageImgs(_, _, _, _, _, _)
CrawlPageImgs(img_tags, seen_images, data, cl, url, base_domain) ==
    IF img_tags = <<>>
    THEN [images_data |-> data, calls |-> cl, raised |-> FALSE]
    ELSE LET img == Head(img_tags)
             rest == Tail(img_tags)
         IN IF img.src.kind = "none" \/ ~is_image_visible(img)
            THEN CrawlPageImgs(rest, seen_images, data, cl, url, base_domain)
            ELSE IF img.src.kind = "bad"
            THEN [images_data |-> data, calls |-> cl, raised |-> TRUE]
            ELSE LET img_url == urljoin(url, img.src)
                 IN IF img_url \in seen_images
                    THEN CrawlPageImgs(rest, seen_images, data, cl, url, base_domain)
                    ELSE IF is_valid_image(img_url)
                    THEN CrawlPageImgs(rest, seen_images \cup {img_url},
                             process_image(img_url, img, url, base_domain, data),
                             Called(cl, img_url, img), url, base_domain)
                    ELSE CrawlPageImgs(rest, seen_images \cup {img_url},
                                       data, cl, url, base_domain)

\* the loop of main over img_tags: every <img> with a src is processed
RECURSIVE MainPageImgs(_, _, _, _, _)
MainPageImgs(img_tags, data, cl, url, base_domain) ==
    IF img_tags = <<>>
    THEN [images_data |-> data, calls |-> cl, raised |-> FALSE]
    ELSE LET img == Head(img_tags)
             rest == Tail(img_tags)
         IN IF img.src.kind = "none"
            THEN MainPageImgs(rest, data, cl, url, base_domain)
            ELSE IF img.src.kind = "bad"
            THEN [images_data |-> data, calls |-> cl, raised |-> TRUE]
            ELSE MainPageImgs(rest,
                     process_image(urljoin(url, img.src), img, url, base_domain, data),
                     Called(cl, urljoin(url, img.src), img), url, base_domain)

\* {k: v for k, v in images_data.items() if v["count"] > 0}
FilteredData(data) ==
    LET kept == {k \in DOMAIN data : data[k].count > 0}
    IN [k \in kept |-> data[k]]

(***************************************************************************)
(* get_images: the page loop calling crawl_page                            *)
(***************************************************************************)
\* the values crawl_page returns: an int, or the empty list of its two
\* inner except clauses
PyInt(n) == [type |-> "int", value |-> n]
EmptyList == [type |-> "list", value |-> 0]

\* requests.get or raise_for_status raising inside crawl_page: a timeout, a
\* 4xx/5xx status, a connection error
PageFetchErrors == {"timeout", "http_error", "connection_error"}

\* get_images when its loop starts: sampled_urls drawn, consecutive_errors = 0
InitImages ==
    /\ domain = SiteDomain
    /\ sampled_urls \in SampledLists
    /\ images_data = <<>>
    /\ gi_consecutive_errors = PyInt(0)
    /\ gi_throttle \in InitThrottles
    /\ gi_pc = "loop"
    /\ calls = <<>>
    /\ gi_last = [kind |-> "none"]
    /\ CrawlIdle
    /\ SitemapIdle
    /\ AnalysisIdle
    /\ GeneratorIdle

\* if consecutive_errors > 5: throttle = min(throttle + 1, 10)
GiAutoThrottle(errors, t) ==
    IF errors > ErrorTrigger THEN Min(t + 1, ThrottleCap) ELSE t

\* consecutive_errors = crawl_page(...) returned value, then the comparison
\* with 5, which raises TypeError for a list and ends get_images
AfterCrawlPage(value) ==
    /\ gi_consecutive_errors' = value
    /\ sampled_urls' = Tail(sampled_urls)
    /\ IF value.type = "int"
       THEN /\ gi_throttle' = GiAutoThrottle(value.value, gi_throttle)
            /\ gi_pc' = "loop"
       ELSE /\ gi_throttle' = gi_throttle
            /\ gi_pc' = "raised"

\* is_html_url(url) is false: return consecutive_errors
GiSkipNotHtml ==
    /\ gi_pc = "loop"
    /\ sampled_urls # <<>>
    /\ AfterCrawlPage(gi_consecutive_errors)
    /\ gi_last' = [kind |-> "not_html", url |-> Head(sampled_urls)]
    /\ UNCHANGED <<domain, images_data, calls>>
    /\ UNCHANGED <<crawl_vars, sm_vars, an_vars, gen_vars>>

\* requests.get times out or fails, or raise_for_status raises: return []
GiFetchRaises ==
    /\ gi_pc = "loop"
    /\ sampled_urls # <<>>
    /\ AfterCrawlPage(EmptyList)
    /\ \E kind \in PageFetchErrors :
        gi_last' = [kind |-> kind, url |-> Head(sampled_urls)]
    /\ UNCHANGED <<domain, images_data, calls>>
    /\ UNCHANGED <<crawl_vars, sm_vars, an_vars, gen_vars>>

\* a status raise_for_status lets pass and that is not 200:
\* return consecutive_errors + 1
GiFetchNon200 ==
    /\ gi_pc = "loop"
    /\ sampled_urls # <<>>
    /\ AfterCrawlPage(PyInt(gi_consecutive_errors.value + 1))
    /\ gi_last' = [kind |-> "not_200", url |-> Head(sampled_urls)]
    /\ UNCHANGED <<domain, images_data, calls>>
    /\ UNCHANGED <<crawl_vars, sm_vars, an_vars, gen_vars>>

\* status 200: the loop over the <img> elements, then return 0, or
\* return consecutive_errors + 1 from the outer except
GiFetch200 ==
    /\ gi_pc = "loop"
    /\ sampled_urls # <<>>
    /\ \E tags \in PageTags :
        LET url == Head(sampled_urls)
            r == CrawlPageImgs(tags, SeenAtStart(images_data), images_data, calls,
                               url, domain)
        IN /\ images_data' = r.images_data
           /\ calls' = r.calls
           /\ IF r.raised
              THEN AfterCrawlPage(PyInt(gi_consecutive_errors.value + 1))
              ELSE AfterCrawlPage(PyInt(0))
           /\ gi_last' = [kind |-> IF r.raised THEN "page_exception" ELSE "ok",
                          url |-> url]
    /\ UNCHANGED domain
    /\ UNCHANGED <<crawl_vars, sm_vars, an_vars, gen_vars>>

\* the loop is over: filtered_data is built and returned
GiReturn ==
    /\ gi_pc = "loop"
    /\ sampled_urls = <<>>
    /\ images_data' = FilteredData(images_data)
    /\ gi_pc' = "done"
    /\ gi_last' = [kind |-> "return"]
    /\ UNCHANGED <<domain, sampled_urls, gi_consecutive_errors, gi_throttle, calls>>
    /\ UNCHANGED <<crawl_vars, sm_vars, an_vars, gen_vars>>

NextImages ==
    \/ GiSkipNotHtml
    \/ GiFetchRaises
    \/ GiFetchNon200
    \/ GiFetch200
    \/ GiReturn

SpecImages == InitImages /\ [][NextImages]_vars

(***************************************************************************)
(* main: its own page loop                                                 *)
(***************************************************************************)
\* main when its page loop starts: valid_html_urls selected, images_data
\* empty; domain is args.domain, or "unknown" when another source was given
InitMain ==
    /\ domain \in {SiteDomain, UnknownDomain}
    /\ sampled_urls \in SampledLists
    /\ images_data = <<>>
    /\ gi_consecutive_errors = PyInt(0)
    /\ gi_throttle = 0
    /\ gi_pc = "loop"
    /\ calls = <<>>
    /\ gi_last = [kind |-> "none"]
    /\ CrawlIdle
    /\ SitemapIdle
    /\ AnalysisIdle
    /\ GeneratorIdle

\* requests.get raises, or the response is not a 200 text/html one
MainPageSkipped ==
    /\ gi_pc = "loop"
    /\ sampled_urls # <<>>
    /\ sampled_urls' = Tail(sampled_urls)
    /\ \E kind \in {"exception", "not_200", "not_html"} :
        gi_last' = [kind |-> kind, url |-> Head(sampled_urls)]
    /\ UNCHANGED <<domain, images_data, gi_consecutive_errors, gi_throttle, gi_pc, calls>>
    /\ UNCHANGED <<crawl_vars, sm_vars, an_vars, gen_vars>>

\* a 200 text/html response: process_image for every <img> with a src; an
\* exception ends the page
MainPage200 ==
    /\ gi_pc = "loop"
    /\ sampled_urls # <<>>
    /\ sampled_urls' = Tail(sampled_urls)
    /\ \E tags \in PageTags :
        LET url == Head(sampled_urls)
            r == MainPageImgs(tags, images_data, calls, url, domain)
        IN /\ images_data' = r.images_data
           /\ calls' = r.calls
           /\ gi_last' = [kind |-> IF r.raised THEN "page_exception" ELSE "ok",
                          url |-> url]
    /\ UNCHANGED <<domain, gi_consecutive_errors, gi_throttle, gi_pc>>
    /\ UNCHANGED <<crawl_vars, sm_vars, an_vars, gen_vars>>

\* the loop is over: filtered_data is built
MainReturn ==
    /\ gi_pc = "loop"
    /\ sampled_urls = <<>>
    /\ images_data' = FilteredData(images_data)
    /\ gi_pc' = "done"
    /\ gi_last' = [kind |-> "return"]
    /\ UNCHANGED <<domain, sampled_urls, gi_consecutive_errors, gi_throttle, calls>>
    /\ UNCHANGED <<crawl_vars, sm_vars, an_vars, gen_vars>>

NextMain ==
    \/ MainPageSkipped
    \/ MainPage200
    \/ MainReturn

SpecMain == InitMain /\ [][NextMain]_vars

(***************************************************************************)
(* Properties of the page loops and of process_image                       *)
(***************************************************************************)
\* C14 as claimed: a page whose fetch times out or ends in a non-200 response
\* leaves images_data as it was and makes consecutive_errors the integer one
\* greater than before, the loop going on; a page processed to its end sets
\* consecutive_errors to 0.
C14_FailedFetchCountsOne ==
    [][/\ gi_last'.kind \in PageFetchErrors \cup {"not_200"} =>
            /\ gi_consecutive_errors' = PyInt(gi_consecutive_errors.value + 1)
            /\ gi_pc' = "loop"
            /\ images_data' = images_data
       /\ gi_last'.kind = "ok" => gi_consecutive_errors' = PyInt(0)
      ]_vars

\* C15 as claimed: whichever loop processes a page, the page raises the
\* count of any record by at most 1.
C15_AtMostOnePerPage ==
    [][\A u \in DOMAIN images_data' :
          images_data'[u].count <= ImageRecord(images_data, u).count + 1
      ]_vars

\* C16: the records are those of the image URLs process_image was called
\* for, each count is the number of these calls and so at least 1, also after
\* the count > 0 filter, which removes nothing; no step removes a record or
\* lowers a count.
C16_CountIsNumberOfCalls ==
    /\ [](/\ DOMAIN images_data = DOMAIN calls
          /\ \A u \in DOMAIN images_data :
                /\ images_data[u].count = calls[u].n
                /\ images_data[u].count >= 1)
    /\ [][\A u \in DOMAIN images_data :
             /\ u \in DOMAIN images_data'
             /\ images_data'[u].count >= images_data[u].count
         ]_vars

\* the loop has returned a record that was sighted more than once
C16_Witness ==
    /\ gi_pc = "done"
    /\ \E u \in DOMAIN images_data : images_data[u].count >= 2

\* C17: no record's source_urls holds the same entry twice.
C17_NoDuplicateSource ==
    \A u \in DOMAIN images_data :
        \A i, j \in 1..Len(images_data[u].source_urls) :
            images_data[u].source_urls[i] = images_data[u].source_urls[j] => i = j

\* an image was sighted more often than it has source entries: several
\* sightings came from one page
C17_Witness ==
    \E u \in DOMAIN images_data :
        /\ images_data[u].source_urls # <<>>
        /\ images_data[u].count > Len(images_data[u].source_urls)

\* C18 as claimed: every entry of source_urls is a relative path, without
\* scheme, host and fragment.
C18_RelativePathOnly ==
    \A u \in DOMAIN images_data :
        \A e \in Range(images_data[u].source_urls) :
            e.scheme = "" /\ e.netloc = "" /\ e.fragment = ""

\* the entry expected for a page: scheme and host removed and the rest,
\* fragment included, kept when the page is on the host of the domain
\* argument; the page URL as it is otherwise
SourceEntry(page, base_domain) ==
    IF page.netloc = base_domain.netloc
    THEN PageUrl("", "", page.path, page.fragment)
    ELSE page

\* C18, amended: every entry a page adds to a source_urls list is the page
\* URL without scheme and host but with its fragment when the page is on the
\* host of the domain argument, and the unchanged page URL otherwise.
C18_EntryKeepsFragment ==
    [][\A u \in DOMAIN images_data' :
          \A e \in Range(images_data'[u].source_urls)
                     \ Range(ImageRecord(images_data, u).source_urls) :
              e = SourceEntry(gi_last'.url, domain)
      ]_vars

\* one entry is relative and carries a fragment, another one is a full URL
C18_Witness ==
    /\ \E u \in DOMAIN images_data : \E e \in Range(images_data[u].source_urls) :
          e.netloc = "" /\ e.fragment # ""
    /\ \E u \in DOMAIN images_data : \E e \in Range(images_data[u].source_urls) :
          e.netloc # ""

\* C19: every record carries the alt, title, longdesc, aria-label and
\* aria-describedby text of the latest process_image call for its URL, None
\* where that <img> lacks the attribute; a step changes no record of a URL
\* for which it made no call.
C19_LastWriteWins ==
    /\ [](\A u \in DOMAIN images_data \cap DOMAIN calls :
             /\ images_data[u].alt_text = calls[u].last.alt
             /\ images_data[u].title = calls[u].last.title
             /\ images_data[u].longdesc = calls[u].last.longdesc
             /\ images_data[u].aria_label = calls[u].last.aria_label
             /\ images_data[u].aria_describedby = calls[u].last.described_text)
    /\ [][\A u \in DOMAIN images_data :
             (u \in DOMAIN calls' /\ calls'[u] = calls[u]) =>
                 (u \in DOMAIN images_data' /\ images_data'[u] = images_data[u])
         ]_vars

\* an image sighted more than once has lost its attributes to a later
\* sighting without them, while another image carries its own
C19_Witness ==
    \E u, w \in DOMAIN images_data :
        /\ images_data[u].count >= 2
        /\ images_data[u].alt_text = None
        /\ images_data[u].aria_describedby = None
        /\ images_data[w].alt_text # None

(***************************************************************************)
(* analyze_alt_text                                                        *)
(***************************************************************************)
\* a text is the sequence of its characters
UpperLetters ==
    <<"A", "B", "C", "D", "E", "F", "G", "H", "I", "J", "K", "L", "M",
      "N", "O", "P", "Q", "R", "S", "T", "U", "V", "W", "X", "Y", "Z">>
LowerLetters ==
    <<"a", "b", "c", "d", "e", "f", "g", "h", "i", "j", "k", "l", "m",
      "n", "o", "p", "q", "r", "s", "t", "u", "v", "w", "x", "y", "z">>
Digits == {"0", "1", "2", "3", "4", "5", "6", "7", "8", "9"}
Whitespace == {" ", "\t", "\n"}

\* str.lower()
LowerChar(c) ==
    IF \E i \in 1..Len(UpperLetters) : UpperLetters[i] = c
    THEN LowerLetters[CHOOSE i \in 1..Len(UpperLetters) : UpperLetters[i] = c]
    ELSE c

LowerText(s) == [i \in 1..Len(s) |-> LowerChar(s[i])]

\* str.strip()
RECURSIVE LStrip(_)
LStrip(s) == IF s # <<>> /\ Head(s) \in Whitespace THEN LStrip(Tail(s)) ELSE s

RECURSIVE RStrip(_)
RStrip(s) ==
    IF s # <<>> /\ s[Len(s)] \in Whitespace
    THEN RStrip(SubSeq(s, 1, Len(s) - 1))
    ELSE s

Strip(s) == LStrip(RStrip(s))

\* word in text
Contains(s, word) ==
    \E i \in 0..(Len(s) - Len(word)) : SubSeq(s, i + 1, i + Len(word)) = word

\* \w of the regular expression
IsWordChar(c) ==
    \/ \E i \in 1..Len(LowerLetters) : LowerLetters[i] = c \/ UpperLetters[i] = c
    \/ c \in Digits
    \/ c = "_"

\* len(re.findall(r'\b\w+\b', alt_text)): the maximal runs of word characters
NumWords(s) ==
    Cardinality({i \in 1..Len(s) :
                    IsWordChar(s[i]) /\ (i = 1 \/ ~IsWordChar(s[i - 1]))})

\* the pieces re.split(r'[.!?]', alt_text) cuts the text into, as the pairs
\* of positions they lie between
SentenceEnds == {".", "!", "?"}
Cuts(s) == {0, Len(s) + 1} \cup {i \in 1..Len(s) : s[i] \in SentenceEnds}
Pieces(s) ==
    {p \in Cuts(s) \X Cuts(s) :
        p[1] < p[2] /\ ~\E c \in Cuts(s) : p[1] < c /\ c < p[2]}

\* len([s for s in sentences if s.strip()])
NumSentences(s) ==
    Cardinality({p \in Pieces(s) :
                    \E i \in (p[1] + 1)..(p[2] - 1) : s[i] \notin Whitespace})

\* text_analysis(alt_text): (num_words, num_sentences)
text_analysis(s) ==
    IF s = <<>> \/ Strip(s) = <<>> THEN <<0, 0>>
    ELSE <<NumWords(s), NumSentences(s)>>

\* len(alt_text) < 25
ShortLimit == 25
\* len(alt_text) > 250
LongLimit == 250
\* words / max(sentences, 1) > 20
ReadabilityLimit == 20
\* size_kb > 250
SizeLimitKb == 250

\* wcag_failure_values
wcag_failure_values ==
    { <<"n", "u", "l", "l">>,
      <<"t", "b", "d">>,
      <<"n", "o", "n", "e">>,
      <<"a", "l", "t", " ", "t", "e", "x", "t">>,
      <<>> }

\* suspicious_words
suspicious_words ==
    { <<"i", "m", "a", "g", "e", " ", "o", "f">>,
      <<"g", "r", "a", "p", "h", "i", "c", " ", "o", "f">>,
      <<"p", "i", "c", "t", "u", "r", "e", " ", "o", "f">>,
      <<"p", "h", "o", "t", "o", " ", "o", "f">>,
      <<"p", "l", "a", "c", "e", "h", "o", "l", "d", "e", "r">>,
      <<"s", "p", "a", "c", "e", "r">>,
      <<"t", "b", "d">>,
      <<"t", "o", "d", "o">> }

\* meaningless_alt
meaningless_alt ==
    { <<"a", "l", "t">>,
      <<"c", "h", "a", "r", "t">>,
      <<"d", "e", "c", "o", "r", "a", "t", "i", "v", "e">>,
      <<"i", "m", "a", "g", "e">>,
      <<"g", "r", "a", "p", "h", "i", "c">>,
      <<"p", "h", "o", "t", "o">>,
      <<"p", "l", "a", "c", "e", "h", "o", "l", "d", "e", "r", " ", "i", "m", "a", "g", "e">>,
      <<"s", "p", "a", "c", "e", "r">>,
      <<"t", "b", "d">>,
      <<"t", "o", "d", "o">>,
      <<"u", "n", "d", "e", "f", "i", "n", "e", "d">> }

MsgFailure == "WCAG 1.1.1 Failure: Alt text is empty or invalid."
MsgSize == "Consider reducing the image size for a better user experience."
MsgSuspicious == "Avoid phrases like 'image of', 'graphic of', or 'todo' in alt text."
MsgMeaningless == "Alt text appears meaningless. Replace it with a descriptive value."
MsgShort == "Alt text seems too short. Provide more context."
MsgLong == "Alt text may be too long. Consider shortening."
MsgSimplify == "Consider simplifying the text."
MsgTitle == "Consider removing the title text. Often, it reduces usability for screen readers."
MsgPass == "Alt-text passes automated tests, but does it make sense to a person?"

\* a mutant of AppendIf: the message is put in front of the list
AppendIf_front(suggestion, condition, msg) ==
    IF condition THEN <<msg>> \o suggestion ELSE suggestion

\* suggestion.append(msg) if the condition holds
AppendIf(suggestion, condition, msg) ==
    IF condition THEN Append(suggestion, msg) ELSE suggestion

\* a run of n copies of the text s
Repeat(s, n) == [i \in 1..(n * Len(s)) |-> s[((i - 1) % Len(s)) + 1]]

\* the alt texts of the rows: empty, blank, placeholder words, a meaningless
\* word, a suspicious phrase, a description, texts at both sides of the two
\* length limits, and one-sentence texts of 20 and 21 words
AltTexts ==
    { <<>>,
      <<" ", " ">>,
      <<"t", "b", "d">>,
      <<"T", "B", "D">>,
      <<" ", "N", "u", "l", "l", " ">>,
      <<"N", "o", "n", "e">>,
      <<"a", "l", "t", " ", "t", "e", "x", "t">>,
      <<"i", "m", "a", "g", "e">>,
      <<"p", "h", "o", "t", "o", " ", "o", "f", " ", "a", " ", "d", "o", "g">>,
      <<"A", " ", "r", "e", "d", " ", "b", "a", "r", "n", " ", "i", "n", " ", "a", " ", "g", "r", "e", "e", "n", " ", "f", "i", "e", "l", "d">>,
      <<"A", " ", "p", "i", "c", "t", "u", "r", "e", " ", "o", "f", " ", "a", " ", "c", "a", "t", " ", "e", "a", "t", "i", "n", "g">>,
      Repeat(<<"x">>, ShortLimit - 1),
      Repeat(<<"x">>, ShortLimit),
      Repeat(<<"x">>, LongLimit),
      Repeat(<<"x">>, LongLimit + 1),
      Repeat(<<"a", "b", " ">>, ReadabilityLimit),
      Repeat(<<"a", "b", " ">>, ReadabilityLimit + 1) }

\* a cell of the table: a text, or None for an attribute the <img> lacked
Cell(s) == [missing |-> FALSE, text |-> s]
NoCell == [missing |-> TRUE, text |-> <<>>]

\* the rows of images_df: Alt_text, Title, Size (KB)
Rows ==
    [alt_text : {NoCell} \cup {Cell(s) : s \in AltTexts},
     title : {NoCell, Cell(<<" ">>), Cell(<<"H", "o", "m", "e">>)},
     size_kb : {0, SizeLimitKb, SizeLimitKb + 1}]

\* alt_text = row.get('Alt_text', ""); if alt_text is None: alt_text = ""
\* title_text = row.get('Title', "") or ""
TextOf(cell) == IF cell.missing THEN <<>> ELSE cell.text

\* not alt_text.strip() or alt_text.strip().lower() in wcag_failure_values
IsFailure(alt_text) ==
    Strip(alt_text) = <<>> \/ LowerText(Strip(alt_text)) \in wcag_failure_values

\* any(word in alt_text.lower() for word in suspicious_words)
IsSuspicious(alt_text) ==
    \E word \in suspicious_words : Contains(LowerText(alt_text), word)

\* alt_text.lower() in meaningless_alt
IsMeaningless(alt_text) == LowerText(alt_text) \in meaningless_alt

\* a mutant of IsTooShort: the limit itself counts as too short
IsTooShort_le(alt_text) == Len(alt_text) <= ShortLimit

IsTooShort(alt_text) == Len(alt_text) < ShortLimit

IsTooLong(alt_text) == Len(alt_text) > LongLimit

\* words / max(sentences, 1) > 20, with words and sentences natural numbers
NeedsSimplifying(alt_text) ==
    LET words == text_analysis(alt_text)[1]
        sentences == text_analysis(alt_text)[2]
    IN words > ReadabilityLimit * (IF sentences > 1 THEN sentences ELSE 1)

\* a mutant of WithPassThrough: the message is appended to every list
WithPassThrough_always(suggestion) == Append(suggestion, MsgPass)

\* if not suggestion: suggestion.append(<the pass-through message>)
WithPassThrough(suggestion) ==
    IF suggestion = <<>> THEN <<MsgPass>> ELSE suggestion

\* the list suggestion of one row, rule after rule
Suggestions(row) ==
    LET alt_text == TextOf(row.alt_text)
        title_text == TextOf(row.title)
        s1 == AppendIf(<<>>, IsFailure(alt_text), MsgFailure)
        s2 == AppendIf(s1, row.size_kb > SizeLimitKb, MsgSize)
        s3 == AppendIf(s2, IsSuspicious(alt_text), MsgSuspicious)
        s4 == AppendIf(s3, IsMeaningless(alt_text), MsgMeaningless)
        s5 == AppendIf(s4, IsTooShort(alt_text), MsgShort)
        s6 == AppendIf(s5, IsTooLong(alt_text), MsgLong)
        s7 == AppendIf(s6, NeedsSimplifying(alt_text), MsgSimplify)
        s8 == AppendIf(s7, Strip(title_text) # <<>>, MsgTitle)
    IN WithPassThrough(s8)

\* analyze_alt_text reaches a row of images_df
InitSuggest ==
    /\ an_row \in Rows
    /\ an_out = <<>>
    /\ an_pc = "row"
    /\ CrawlIdle
    /\ SitemapIdle
    /\ ImagesIdle
    /\ GeneratorIdle

\* one iteration of the loop over images_df.iterrows()
AnalyzeRow ==
    /\ an_pc = "row"
    /\ an_out' = Suggestions(an_row)
    /\ an_pc' = "done"
    /\ UNCHANGED an_row
    /\ UNCHANGED <<crawl_vars, sm_vars, img_vars, gen_vars>>

NextSuggest == AnalyzeRow

SpecSuggest == InitSuggest /\ [][NextSuggest]_vars

(***************************************************************************)
(* Properties of analyze_alt_text                                          *)
(***************************************************************************)
\* the suggestions of rules 2 to 4: size, suspicious phrase, meaningless
\* alt, too short, too long, simplify
ContentQualityMessages ==
    {MsgSize, MsgSuspicious, MsgMeaningless, MsgShort, MsgLong, MsgSimplify}

\* the alt text is missing, blank, or one of null, tbd, none, alt text in
\* any letter case
EmptyOrInvalid(cell) ==
    \/ cell.missing
    \/ Strip(cell.text) = <<>>
    \/ LowerText(Strip(cell.text)) \in wcag_failure_values

\* C20 as claimed: a row whose alt text is empty or invalid gets the WCAG
\* 1.1.1 failure message and none of the suggestions of rules 2 to 4.
C20_FailureSkipsQualityRules ==
    (an_pc = "done" /\ EmptyOrInvalid(an_row.alt_text)) =>
        /\ MsgFailure \in Range(an_out)
        /\ Range(an_out) \cap ContentQualityMessages = {}

\* the conditions of the rules, as the text and the size of a row decide them
AltOf(row) == TextOf(row.alt_text)

\* C21: for a row with valid alt text, "too short" is emitted exactly for
\* fewer than 25 characters and "too long" exactly for more than 250, so
\* never both and neither for 25 to 250 characters; the phrasing warning is
\* emitted exactly when the text holds a suspicious phrase, whatever its
\* length.
C21_LengthLimits ==
    (an_pc = "done" /\ ~EmptyOrInvalid(an_row.alt_text)) =>
        /\ MsgShort \in Range(an_out) <=> Len(AltOf(an_row)) < 25
        /\ MsgLong \in Range(an_out) <=> Len(AltOf(an_row)) > 250
        /\ ~(MsgShort \in Range(an_out) /\ MsgLong \in Range(an_out))
        /\ MsgSuspicious \in Range(an_out) <=>
              \E word \in suspicious_words : Contains(LowerText(AltOf(an_row)), word)

\* a text of exactly 25 characters with "picture of" got the phrasing
\* warning and not "too short"
C21_Witness ==
    /\ an_pc = "done"
    /\ Len(AltOf(an_row)) = 25
    /\ MsgSuspicious \in Range(an_out)
    /\ MsgShort \notin Range(an_out)

\* a row no rule objects to: valid alt text of 25 to 250 characters without
\* suspicious phrase, not a meaningless word, at most 20 words per sentence,
\* size at most 250 KB, no title
CleanRow(row) ==
    /\ ~EmptyOrInvalid(row.alt_text)
    /\ ~\E word \in suspicious_words : Contains(LowerText(AltOf(row)), word)
    /\ LowerText(AltOf(row)) \notin meaningless_alt
    /\ Len(AltOf(row)) >= 25 /\ Len(AltOf(row)) <= 250
    /\ NumWords(AltOf(row)) <= 20 * (IF NumSentences(AltOf(row)) > 1
                                      THEN NumSentences(AltOf(row)) ELSE 1)
    /\ row.size_kb <= 250
    /\ Strip(TextOf(row.title)) = <<>>

\* C22: the list of every row is non-empty; the pass-through message is
\* never accompanied by another suggestion, and it is the list exactly of
\* the rows no rule objects to.
C22_PassThroughAlone ==
    an_pc = "done" =>
        /\ an_out # <<>>
        /\ MsgPass \in Range(an_out) => an_out = <<MsgPass>>
        /\ an_out = <<MsgPass>> <=> CleanRow(an_row)

\* a described image of 250 KB without title got the pass-through message
C22_Witness ==
    /\ an_pc = "done"
    /\ CleanRow(an_row)
    /\ an_row.size_kb = 250
    /\ an_out = <<MsgPass>>

\* the messages of the rules in the order of the rules
RuleOrder ==
    <<MsgFailure, MsgSize, MsgSuspicious, MsgMeaningless, MsgShort, MsgLong,
      MsgSimplify, MsgTitle>>

RuleIndex(msg) == CHOOSE i \in 1..Len(RuleOrder) : RuleOrder[i] = msg

\* C28: the suggestions of a row follow the order failure, size, suspicious
\* phrase, meaningless alt, too short, too long, simplify, title; the title
\* suggestion is there exactly for a non-blank title, for rows with empty or
\* invalid alt text too, and is then the last one.
C28_FixedOrderTitleLast ==
    an_pc = "done" =>
        /\ an_out # <<MsgPass>> =>
              /\ Range(an_out) \subseteq Range(RuleOrder)
              /\ \A i, j \in 1..Len(an_out) :
                    i < j => RuleIndex(an_out[i]) < RuleIndex(an_out[j])
        /\ MsgTitle \in Range(an_out) <=> Strip(TextOf(an_row.title)) # <<>>
        /\ MsgTitle \in Range(an_out) => an_out[Len(an_out)] = MsgTitle

\* a row with invalid alt text and a title: the failure message comes
\* first, other suggestions follow, the title suggestion is last
C28_Witness ==
    /\ an_pc = "done"
    /\ EmptyOrInvalid(an_row.alt_text)
    /\ Strip(TextOf(an_row.title)) # <<>>
    /\ Len(an_out) >= 4
    /\ an_out[1] = MsgFailure
    /\ an_out[Len(an_out)] = MsgTitle

\* C29: every record has at least one source entry and at most as many as
\* its count; a step adds to a record at most as many source entries as it
\* adds to its count.
C29_SourcesBetweenOneAndCount ==
    /\ [](\A u \in DOMAIN images_data :
             /\ 1 <= Len(images_data[u].source_urls)
             /\ Len(images_data[u].source_urls) <= images_data[u].count)
    /\ [][\A u \in DOMAIN images_data' :
             Len(images_data'[u].source_urls)
                 - Len(ImageRecord(images_data, u).source_urls)
             <= images_data'[u].count - ImageRecord(images_data, u).count
         ]_vars

\* one record has fewer source entries than sightings, another one as many
C29_Witness ==
    \E u, w \in DOMAIN images_data :
        /\ Len(images_data[u].source_urls) < images_data[u].count
        /\ Len(images_data[w].source_urls) = images_data[w].count

(***************************************************************************)
(* Extracting one page twice                                               *)
(***************************************************************************)
\* the same HTML when it is extracted again: the <img> elements are the
\* same, the size probes of the images in lost fail this time
ProbedAgain(tags, lost) ==
    [i \in 1..Len(tags) |->
        IF i \in lost THEN [tags[i] EXCEPT !.content_length = 0] ELSE tags[i]]

\* the img loop of crawl_page or of main, on the given <img> elements
ExtractPage(loop, tags, data, cl, url, base_domain) ==
    IF loop = "crawl_page"
    THEN CrawlPageImgs(tags, SeenAtStart(data), data, cl, url, base_domain)
    ELSE MainPageImgs(tags, data, cl, url, base_domain)

\* an empty aggregate and one page to extract
InitReextract ==
    /\ domain \in {SiteDomain, UnknownDomain}
    /\ \E p \in Pages : sampled_urls = <<p>>
    /\ images_data = <<>>
    /\ gi_consecutive_errors = PyInt(0)
    /\ gi_throttle = 0
    /\ gi_pc = "first"
    /\ calls = <<>>
    /\ gi_last = [kind |-> "none"]
    /\ CrawlIdle
    /\ SitemapIdle
    /\ AnalysisIdle
    /\ GeneratorIdle

\* the page is fetched and its <img> elements are folded into images_data
\* by the loop of crawl_page (lines 406-428)
ExtractFirstCrawlPage ==
    /\ gi_pc = "first"
    /\ \E tags \in PageTags :
        LET r == ExtractPage("crawl_page", tags, images_data, calls,
                             Head(sampled_urls), domain)
        IN /\ images_data' = r.images_data
           /\ calls' = r.calls
           /\ gi_last' = [kind |-> "crawl_page", url |-> Head(sampled_urls),
                          tags |-> tags]
    /\ gi_pc' = "again"
    /\ UNCHANGED <<domain, sampled_urls, gi_consecutive_errors, gi_throttle>>
    /\ UNCHANGED <<crawl_vars, sm_vars, an_vars, gen_vars>>

\* the same by the loop of main (lines 679-684)
ExtractFirstMain ==
    /\ gi_pc = "first"
    /\ \E tags \in PageTags :
        LET r == ExtractPage("main", tags, images_data, calls,
                             Head(sampled_urls), domain)
        IN /\ images_data' = r.images_data
           /\ calls' = r.calls
           /\ gi_last' = [kind |-> "main", url |-> Head(sampled_urls),
                          tags |-> tags]
    /\ gi_pc' = "again"
    /\ UNCHANGED <<domain, sampled_urls, gi_consecutive_errors, gi_throttle>>
    /\ UNCHANGED <<crawl_vars, sm_vars, an_vars, gen_vars>>

\* the same HTML is extracted a second time by the same loop
ExtractAgain ==
    /\ gi_pc = "again"
    /\ \E lost \in SUBSET (1..Len(gi_last.tags)) :
        LET r == ExtractPage(gi_last.kind, ProbedAgain(gi_last.tags, lost),
                             images_data, calls, gi_last.url, domain)
        IN /\ images_data' = r.images_data
           /\ calls' = r.calls
    /\ gi_pc' = "done"
    /\ sampled_urls' = Tail(sampled_urls)
    /\ UNCHANGED <<domain, gi_consecutive_errors, gi_throttle, gi_last>>
    /\ UNCHANGED <<crawl_vars, sm_vars, an_vars, gen_vars>>

NextReextract ==
    \/ ExtractFirstCrawlPage
    \/ ExtractFirstMain
    \/ ExtractAgain

SpecReextract == InitReextract /\ [][NextReextract]_vars

\* the metadata of a record: what process_image reads from the <img>
Metadata(record) ==
    [alt_text |-> record.alt_text, title |-> record.title,
     longdesc |-> record.longdesc, aria_label |-> record.aria_label,
     aria_describedby |-> record.aria_describedby]

SpecCrawlRuns == (Init \/ InitThrottle) /\ [][Next]_vars /\ WF_vars(Next)

\* C26: crawl_site is always either in its loop or returned (no exception
\* leaves it) with at most max_pages accepted pages; a step that changes the
\* frontier without shortening it accepted the page it fetched; and
\* every run of crawl_site returns a list of the accepted pages.
C26_CrawlTerminates ==
    /\ [](/\ pc \in {"loop", "done"}
          /\ Cardinality(crawled_urls) <= max_pages
          /\ pc = "done" => /\ Range(result) = crawled_urls
                            /\ Len(result) = Cardinality(crawled_urls))
    /\ [][(urls_to_visit' # urls_to_visit /\ Len(urls_to_visit') >= Len(urls_to_visit)) =>
             /\ urls_to_visit # <<>>
             /\ Head(urls_to_visit) \in crawled_urls' \ crawled_urls]_vars
    /\ <>(pc = "done")

\* crawl_site returned with URLs left on the frontier after a fetch that was
\* not accepted
C26_Witness ==
    /\ pc = "done"
    /\ urls_to_visit # <<>>
    /\ max_pages > 0
    /\ Cardinality(crawled_urls) = max_pages
    /\ visited_urls # crawled_urls

(***************************************************************************)
(* A throttle argument above the cap                                       *)
(***************************************************************************)
\* throttle arguments, one of them above the cap of line 306
InitThrottlesAbove == InitThrottles \cup {12}

\* crawl_site(start_url, max_pages, throttle) on the site with many pages
InitThrottleAbove ==
    /\ site = FanSite
    /\ start_url = SeedUrl
    /\ max_pages \in 0..MaxPages
    /\ throttle \in InitThrottlesAbove
    /\ urls_to_visit = <<start_url>>
    /\ visited_urls = {}
    /\ crawled_urls = {}
    /\ consecutive_errors = 0
    /\ pc = "loop"
    /\ result = <<>>
    /\ fetch_count = <<>>
    /\ last_outcome = "none"
    /\ slept = TRUE
    /\ run_throttle = throttle
    /\ SitemapIdle
    /\ ImagesIdle
    /\ AnalysisIdle
    /\ GeneratorIdle

SpecThrottleAbove == InitThrottleAbove /\ [][Next]_vars

CrawlResults(sample_size) ==
    {S \in SUBSET {p \in Pages : p.netloc = SiteDomain.netloc} :
        Cardinality(S) <= sample_size}

\* what parse_sitemap(sitemap_url, domain) may return
SitemapResults == SUBSET Pages

\* random.sample(all_urls, min(sample_size, len(all_urls)))
RandomSample(all_urls, sample_size) ==
    {l \in SampledLists :
        /\ Range(l) \subseteq all_urls
        /\ Len(l) = Min(sample_size, Cardinality(all_urls))}

\* get_images(domain, sample_size, throttle, crawl_only) is called; the local
\* variable sampled_urls is not assigned yet
InitGetImages ==
    /\ domain = SiteDomain
    /\ sampled_urls = <<>>
    /\ images_data = <<>>
    /\ gi_consecutive_errors = PyInt(0)
    /\ gi_throttle \in InitThrottles
    /\ gi_pc = "start"
    /\ calls = <<>>
    /\ \E sample_size \in 0..MaxSampled, crawl_only \in BOOLEAN :
          gi_last = [kind |-> "call", sample_size |-> sample_size,
                     crawl_only |-> crawl_only]
    /\ CrawlIdle
    /\ SitemapIdle
    /\ AnalysisIdle
    /\ GeneratorIdle

\* crawl_only is true: all_urls = crawl_site(...) (lines 458-460); nothing
\* assigns sampled_urls, and len(sampled_urls) at line 476 raises
\* UnboundLocalError
GiCrawlOnly ==
    /\ gi_pc = "start"
    /\ gi_last.crawl_only
    /\ \E all_urls \in CrawlResults(gi_last.sample_size) :
          gi_last' = [kind |-> "UnboundLocalError", all_urls |-> all_urls]
    /\ gi_pc' = "raised"
    /\ UNCHANGED <<domain, sampled_urls, images_data, gi_consecutive_errors,
                   gi_throttle, calls>>
    /\ UNCHANGED <<crawl_vars, sm_vars, an_vars, gen_vars>>

\* crawl_only is false: the sitemap is parsed, crawl_site is the fallback for
\* an empty result, and sampled_urls is drawn (lines 461-474)
GiSitemapOrCrawl ==
    /\ gi_pc = "start"
    /\ ~gi_last.crawl_only
    /\ \E from_sitemap \in SitemapResults,
          from_crawl \in CrawlResults(gi_last.sample_size) :
          LET all_urls == IF from_sitemap = {} THEN from_crawl ELSE from_sitemap
          IN \E sample \in RandomSample(all_urls, gi_last.sample_size) :
                /\ sampled_urls' = sample
                /\ gi_last' = [kind |-> "sampled", all_urls |-> all_urls]
    /\ gi_pc' = "loop"
    /\ UNCHANGED <<domain, images_data, gi_consecutive_errors, gi_throttle, calls>>
    /\ UNCHANGED <<crawl_vars, sm_vars, an_vars, gen_vars>>

NextGetImages ==
    \/ GiCrawlOnly
    \/ GiSitemapOrCrawl
    \/ NextImages

SpecGetImages == InitGetImages /\ [][NextGetImages]_vars

\* C27: a call of get_images with crawl_only=True does not end in an error:
\* after its crawl it goes on to the page loop with a sample of the crawled
\* URLs.
C27_CrawlOnlyReachesPageLoop ==
    [][(gi_pc = "start" /\ gi_last.crawl_only) =>
          /\ gi_pc' = "loop"
          /\ Len(sampled_urls') <= gi_last.sample_size]_vars

(***************************************************************************)
(* alt-text-generator.py: the batch loop and generate_alt_text             *)
(***************************************************************************)
PROBLEMATIC_SUGGESTIONS ==
    {"WCAG 1.1.1 Failure: Alt text is empty or invalid.",
     "No alt text was provided. Clear WCAG failure.",
     "Avoid phrases like 'image of', 'graphic of', or 'todo' in alt text.",
     "Alt text appears to be meaningless. Replace it with descriptive content.",
     "Alt text seems too short. Consider providing more context.",
     "Consider simplifying the text.",
     "Alt text is too short. Provide more context."}

\* stop_after_attempt(3) of the decorator of send_request_with_retry, a
\* function that nothing calls
StopAfterAttempt == 3

\* the Image_url column: empty, an SVG and a photograph
NoImageUrl == <<>>
SvgUrl == <<"h", "t", "t", "p", ":", "/", "/", "s", "/", "a", ".", "S", "V", "G">>
PhotoUrl == <<"h", "t", "t", "p", ":", "/", "/", "s", "/", "b", ".", "j", "p", "g">>

\* the Suggestions column as the list of messages it holds
CsvRows ==
    [image_url : {NoImageUrl, SvgUrl, PhotoUrl},
     suggestions : {<<>>, <<MsgPass>>, <<MsgSize, MsgFailure>>}]

\* the --model values the model follows
Models == {"blip", "ollama"}

\* str.endswith(suffix)
EndsWith(text, suffix) ==
    /\ Len(text) >= Len(suffix)
    /\ SubSeq(text, Len(text) - Len(suffix) + 1, Len(text)) = suffix

\* any(problematic in suggestions for problematic in PROBLEMATIC_SUGGESTIONS)
IsProblematic(suggestions) ==
    \E i \in 1..Len(suggestions) : suggestions[i] \in PROBLEMATIC_SUGGESTIONS

\* the rows for which the loop calls generate_alt_text: a row without URL
\* (line 643-647) or with a problematic suggestion (line 651-654)
CallsGenerate(row) == row.image_url = <<>> \/ IsProblematic(row.suggestions)

\* image_url.lower().endswith(".svg")
IsSvg(image_url) == EndsWith(LowerText(image_url), <<".", "s", "v", "g">>)

\* what extract_text_with_ocr may return: nothing, the text of a text-heavy
\* image, or the message of one of its except clauses
OcrFailures ==
    {"Network error while fetching image", "Error loading image",
     "Unexpected error processing image"}
OcrResults == {"", "SPRING SALE 50% OFF ALL BIKES"} \cup OcrFailures

\* what generate_with_blip returns for each way it may end
BlipValue(outcome) ==
    CASE outcome = "generated" -> "A red bicycle."
      [] outcome = "fetch_failed" -> "Error fetching image from URL"
      [] outcome = "os_error" -> "Error loading image file"
      [] outcome = "backend_exception" -> "\nError generating alt text with BLIP"
BlipOutcomes == {"generated", "fetch_failed", "os_error", "backend_exception"}

\* what generate_with_ollama returns for each way it may end; an answer
\* with an error status carries no "response" line and leaves final_text empty
OllamaValue(outcome) ==
    CASE outcome = "generated" -> "A red bicycle."
      [] outcome = "fetch_failed" -> "Error: Failed to connect to Ollama API: <req_err>"
      [] outcome = "timeout" -> "Error: Request to Ollama API timed out."
      [] outcome = "connection_error" -> "Error: Failed to connect to Ollama API: <req_err>"
      [] outcome = "backend_exception" -> "Error generating alt text: <e>"
      [] outcome = "error_status" -> ""
OllamaOutcomes ==
    {"generated", "fetch_failed", "timeout", "connection_error",
     "backend_exception", "error_status"}

\* requests.post(OLLAMA_API_URL, json=payload, timeout=90) is called once,
\* unless fetching the image raised before
OllamaPosts(outcome) == IF outcome = "fetch_failed" THEN 0 ELSE 1

\* the CSV is loaded and the loop starts
InitGenerate ==
    /\ ga_model \in Models
    /\ ga_rows \in BoundedSeq(CsvRows, MaxRows)
    /\ ga_done = <<>>
    /\ ga_polls = 0
    /\ ga_pc = "rows"
    /\ CrawlIdle
    /\ SitemapIdle
    /\ ImagesIdle
    /\ AnalysisIdle

\* row["Generated Alt Text"] = value, and the loop goes to the next row
RowDone(outcome, value, posts) ==
    /\ ga_done' = Append(ga_done, [row |-> Head(ga_rows), outcome |-> outcome,
                                   value |-> value, posts |-> posts])
    /\ ga_rows' = Tail(ga_rows)
    /\ ga_polls' = 0
    /\ UNCHANGED <<ga_model, ga_pc>>
    /\ UNCHANGED <<crawl_vars, sm_vars, img_vars, an_vars>>

\* the row is at the head of the loop and generate_alt_text is called for it
Generating ==
    /\ ga_pc = "rows"
    /\ ga_rows # <<>>
    /\ CallsGenerate(Head(ga_rows))

\* while not check_internet(): time.sleep(60)
GenWaitOffline ==
    /\ Generating
    /\ ga_polls < MaxPolls
    /\ ga_polls' = ga_polls + 1
    /\ UNCHANGED <<ga_model, ga_rows, ga_done, ga_pc>>
    /\ UNCHANGED <<crawl_vars, sm_vars, img_vars, an_vars>>

\* the row has a URL and no problematic suggestion: generation is skipped
GenRowSufficient ==
    /\ ga_pc = "rows"
    /\ ga_rows # <<>>
    /\ ~CallsGenerate(Head(ga_rows))
    /\ RowDone("sufficient", "Skipped: Alt text sufficient \n\n\n", 0)

\* a mutant of GenRowSvg: the SVG is reported by an exception nothing catches
GenRowSvg_raises ==
    /\ Generating
    /\ IsSvg(Head(ga_rows).image_url)
    /\ ga_pc' = "raised"
    /\ UNCHANGED <<ga_model, ga_rows, ga_done, ga_polls>>
    /\ UNCHANGED <<crawl_vars, sm_vars, img_vars, an_vars>>

\* generate_alt_text returns "Skipped: SVG file"
GenRowSvg ==
    /\ Generating
    /\ IsSvg(Head(ga_rows).image_url)
    /\ RowDone("svg", "Skipped: SVG file", 0)

\* check_image_exists is false; for the empty URL requests.head raises
\* MissingSchema, which check_image_exists catches
GenRowNotFound ==
    /\ Generating
    /\ ~IsSvg(Head(ga_rows).image_url)
    /\ RowDone(IF Head(ga_rows).image_url = <<>> THEN "missing_url" ELSE "not_found",
               "404 Image Not Found", 0)

\* extract_text_with_ocr returns a non-empty string, which is returned
\* (clean_ocr_text leaves a single line as it is)
GenRowOcr ==
    /\ Generating
    /\ ~IsSvg(Head(ga_rows).image_url)
    /\ Head(ga_rows).image_url # <<>>
    /\ \E ocr_text \in OcrResults \ {""} :
          RowDone(IF ocr_text \in OcrFailures THEN "ocr_failed" ELSE "ocr_text",
                  ocr_text, 0)

\* model == "blip": return generate_with_blip(...)
GenRowBlip ==
    /\ Generating
    /\ ~IsSvg(Head(ga_rows).image_url)
    /\ Head(ga_rows).image_url # <<>>
    /\ ga_model = "blip"
    /\ \E outcome \in BlipOutcomes : RowDone(outcome, BlipValue(outcome), 0)

\* model == "ollama": return generate_with_ollama(...)
GenRowOllama ==
    /\ Generating
    /\ ~IsSvg(Head(ga_rows).image_url)
    /\ Head(ga_rows).image_url # <<>>
    /\ ga_model = "ollama"
    /\ \E outcome \in OllamaOutcomes :
          RowDone(outcome, OllamaValue(outcome), OllamaPosts(outcome))

\* the loop is over: save_csv
GenSave ==
    /\ ga_pc = "rows"
    /\ ga_rows = <<>>
    /\ ga_pc' = "saved"
    /\ UNCHANGED <<ga_model, ga_rows, ga_done, ga_polls>>
    /\ UNCHANGED <<crawl_vars, sm_vars, img_vars, an_vars>>

NextGenerate ==
    \/ GenWaitOffline
    \/ GenRowSufficient
    \/ GenRowSvg
    \/ GenRowNotFound
    \/ GenRowOcr
    \/ GenRowBlip
    \/ GenRowOllama
    \/ GenSave

\* the loop goes on; the connection is back after at most MaxPolls sleeps
SpecGenerate == InitGenerate /\ [][NextGenerate]_vars /\ WF_vars(NextGenerate)

(***************************************************************************)
(* Properties of the alt-text generator                                    *)
(***************************************************************************)
\* C24: a row is reported with an error of the Ollama HTTP call (a timeout
\* or a failed connection) only after the call was made 3 times.
C24_ErrorAfterThreeAttempts ==
    \A i \in 1..Len(ga_done) :
        ga_done[i].outcome \in {"timeout", "connection_error"} =>
            ga_done[i].posts = StopAfterAttempt

\* the skip strings and the error strings of the generator
SkipStrings == {"Skipped: SVG file", "Skipped: Alt text sufficient \n\n\n"}
ErrorStrings ==
    {"404 Image Not Found", "Error fetching image from URL",
     "Error loading image file", "\nError generating alt text with BLIP",
     "Error: Failed to connect to Ollama API: <req_err>",
     "Error: Request to Ollama API timed out.",
     "Error generating alt text: <e>"} \cup OcrFailures

\* the per-row outcomes in which an exception or a skip ended the generation
FailedOutcomes ==
    {"missing_url", "svg", "not_found", "ocr_failed", "fetch_failed", "os_error",
     "backend_exception", "timeout", "connection_error"}

====
